---- MODULE Spec2Model ----
(***************************************************************************)
(* Model of create_sample_dataset.py: the keyword impact classifier, the   *)
(* progression scorer, the corpus analyzer, the stratified sampler and the *)
(* main() pipeline that moves, analyses, samples and re-materializes the   *)
(* bills directory.                                                        *)
(*                                                                         *)
(* Python strings are TLA+ strings; "k in text" is Contains, str.lower()   *)
(* is Lower.  Python dicts are functions whose DOMAIN is the key set, so   *)
(* dict.get(k, d) is Get.  int(x * 0.3) and friends are computed in        *)
(* integer arithmetic by Trunc, which truncates toward zero like int().    *)
(***************************************************************************)
EXTENDS Integers, Sequences, FiniteSets, TLC

VARIABLES
    bill_data,          \* the metadata dict handed to a scorer on its own
    impact_level,       \* result of analyze_bill_impact on bill_data
    progression_score,  \* result of get_bill_progression_score on bill_data
    pc,                 \* position of main()
    store,              \* metadata.json content of every bill directory
    current,            \* the directory current_bills_dir == new_bills_dir
    backup,             \* the directory backup_dir
    target_total,       \* the target_total argument of select_sample_bills
    bills_data,         \* BillAnalyzer.bills_data
    impact_categories,  \* BillAnalyzer.impact_categories
    selected_bills,     \* the list select_sample_bills builds
    cat,                \* index of the next category of the targets loop
    copied              \* index i of the copy loop of create_sample_dataset

vars == <<bill_data, impact_level, progression_score, pc, store, current,
          backup, target_total, bills_data, impact_categories,
          selected_bills, cat, copied>>

harnessVars == <<bill_data, impact_level, progression_score>>
mainVars == <<pc, store, current, backup, target_total, bills_data,
              impact_categories, selected_bills, cat, copied>>

(***************************************************************************)
(* Bounds                                                                  *)
(***************************************************************************)
MaxOtherTitles == 2
MaxActions == 2
MaxBills == 4
MaxTarget == 10
MaxRestartBills == 2

(***************************************************************************)
(* Python primitives                                                       *)
(***************************************************************************)
Min(a, b) == IF a <= b THEN a ELSE b
Max(a, b) == IF a >= b THEN a ELSE b

\* int(n / d) for d > 0: truncation toward zero
Trunc(n, d) == IF n >= 0 THEN n \div d ELSE 0 - ((0 - n) \div d)

\* keyword in text
Contains(text, keyword) ==
    \E i \in 1..(Len(text) - Len(keyword) + 1) :
        SubSeq(text, i, i + Len(keyword) - 1) = keyword

UpperLetters == "ABCDEFGHIJKLMNOPQRSTUVWXYZ"
LowerLetters == "abcdefghijklmnopqrstuvwxyz"

LowerChar(c) ==
    IF \E i \in 1..26 : SubSeq(UpperLetters, i, i) = c
    THEN LET i == CHOOSE j \in 1..26 : SubSeq(UpperLetters, j, j) = c
         IN  SubSeq(LowerLetters, i, i)
    ELSE c

RECURSIVE Lower(_)
Lower(s) ==
    IF Len(s) = 0 THEN ""
    ELSE LowerChar(SubSeq(s, 1, 1)) \o Lower(SubSeq(s, 2, Len(s)))

\* dict.get(key, default)
Get(d, key, default) == IF key \in DOMAIN d THEN d[key] ELSE default

\* seq[:k] and seq[k:] with Python's negative-index rule
SliceTo(seq, k) ==
    IF k >= 0 THEN SubSeq(seq, 1, Min(k, Len(seq)))
    ELSE SubSeq(seq, 1, Max(Len(seq) + k, 0))
SliceFrom(seq, k) ==
    IF k >= 0 THEN SubSeq(seq, Min(k, Len(seq)) + 1, Len(seq))
    ELSE SubSeq(seq, Max(Len(seq) + k, 0) + 1, Len(seq))

(***************************************************************************)
(* Keyword lists of BillAnalyzer.__init__                                  *)
(***************************************************************************)
high_impact_keywords ==
    <<"healthcare", "medicare", "medicaid", "prescription", "drug",
      "health insurance", "tax", "taxes", "wage", "wages", "benefit",
      "benefits", "unemployment", "student loan", "education funding",
      "school", "tuition", "housing", "rent", "mortgage",
      "affordable housing", "consumer protection", "privacy",
      "financial services", "banking", "immigration", "refugee", "asylum",
      "family reunification", "social security", "disability",
      "veterans benefits">>

medium_impact_keywords ==
    <<"infrastructure", "road", "bridge", "internet", "broadband", "utility",
      "environment", "air quality", "water quality", "climate", "pollution",
      "technology", "artificial intelligence", "ai", "data privacy",
      "digital rights", "veterans", "military benefits", "small business",
      "entrepreneur", "transportation", "public transit", "safety",
      "traffic">>

low_impact_keywords ==
    <<"post office", "naming", "commemorative", "resolution", "designation",
      "government operations", "agency reorganization", "administrative",
      "military equipment", "defense contract", "base", "facility", "treaty",
      "sanctions", "foreign policy", "diplomatic">>

administrative_keywords ==
    <<"post office", "naming", "commemorative", "designation", "resolution",
      "administrative", "procedural", "government operations">>

(***************************************************************************)
(* analyze_bill_impact                                                     *)
(***************************************************************************)
RECURSIVE JoinOtherTitles(_, _)
JoinOtherTitles(text, other_titles) ==
    IF other_titles = <<>> THEN text
    ELSE JoinOtherTitles(text \o " " \o Lower(Get(Head(other_titles), "title", "")),
                         Tail(other_titles))

\* title plus every other title, lower-cased and joined by blanks
text_to_analyze(bd) ==
    JoinOtherTitles(Lower(Get(bd, "title", "")), Get(bd, "other_titles", <<>>))

\* sum(1 for keyword in keywords if keyword in text)
RECURSIVE CountKeywords(_, _)
CountKeywords(keywords, text) ==
    IF keywords = <<>> THEN 0
    ELSE (IF Contains(text, Head(keywords)) THEN 1 ELSE 0)
         + CountKeywords(Tail(keywords), text)

\* any(keyword in text for keyword in keywords)
AnyKeyword(keywords, text) ==
    \E i \in 1..Len(keywords) : Contains(text, keywords[i])

\* variant of the chain with the low_count test moved to the front
LowFirstLevel(high_count, medium_count, low_count) ==
    IF low_count >= 2 THEN "low_impact"
    ELSE IF high_count >= 2 \/ (high_count >= 1 /\ medium_count >= 1)
         THEN "high_impact"
    ELSE IF medium_count >= 2 \/ (medium_count >= 1 /\ high_count >= 1)
         THEN "medium_impact"
    ELSE IF high_count = 1 THEN "high_impact"
    ELSE IF medium_count = 1 THEN "medium_impact"
    ELSE "mixed_impact"

\* the if/elif chain "Determine impact level"
DetermineLevel(high_count, medium_count, low_count) ==
    IF high_count >= 2 \/ (high_count >= 1 /\ medium_count >= 1)
    THEN "high_impact"
    ELSE IF medium_count >= 2 \/ (medium_count >= 1 /\ high_count >= 1)
         THEN "medium_impact"
    ELSE IF low_count >= 2 THEN "low_impact"
    ELSE IF high_count = 1 THEN "high_impact"
    ELSE IF medium_count = 1 THEN "medium_impact"
    ELSE "mixed_impact"

\* variant without the administrative check
NoShortCircuitImpact(bd) ==
    IF DOMAIN bd = {} THEN "mixed_impact"
    ELSE LET text == text_to_analyze(bd)
         IN  DetermineLevel(CountKeywords(high_impact_keywords, text),
                            CountKeywords(medium_impact_keywords, text),
                            CountKeywords(low_impact_keywords, text))

analyze_bill_impact(bd) ==
    IF DOMAIN bd = {} THEN "mixed_impact"
    ELSE LET text == text_to_analyze(bd)
         IN  IF AnyKeyword(administrative_keywords, text) THEN "low_impact"
             ELSE DetermineLevel(CountKeywords(high_impact_keywords, text),
                                 CountKeywords(medium_impact_keywords, text),
                                 CountKeywords(low_impact_keywords, text))

(***************************************************************************)
(* get_bill_progression_score                                              *)
(***************************************************************************)
\* variant with the first two rows exchanged
SignatureFirstScore(action) ==
    LET description == Lower(Get(action, "description", ""))
        classification == Get(action, "classification", {})
    IN  IF Contains(description, "signed by president")
           \/ "executive-signature" \in classification THEN 90
        ELSE IF Contains(description, "became law")
                \/ "became-law" \in classification THEN 100
        ELSE IF Contains(description, "passed")
                /\ (Contains(description, "house")
                    \/ Contains(description, "senate")) THEN 80
        ELSE IF Contains(description, "committee.*report")
                \/ Contains(description, "ordered.*reported") THEN 60
        ELSE IF Contains(description, "committee consideration")
                \/ Contains(description, "markup") THEN 40
        ELSE IF Contains(description, "referred") THEN 10
        ELSE IF Contains(description, "introduced") THEN 5
        ELSE 0

\* the body of the loop over actions: what one action adds to the score
ActionScore(action) ==
    LET description == Lower(Get(action, "description", ""))
        classification == Get(action, "classification", {})
    IN  IF Contains(description, "became law")
           \/ "became-law" \in classification THEN 100
        ELSE IF Contains(description, "signed by president")
                \/ "executive-signature" \in classification THEN 90
        ELSE IF Contains(description, "passed")
                /\ (Contains(description, "house")
                    \/ Contains(description, "senate")) THEN 80
        ELSE IF Contains(description, "committee.*report")
                \/ Contains(description, "ordered.*reported") THEN 60
        ELSE IF Contains(description, "committee consideration")
                \/ Contains(description, "markup") THEN 40
        ELSE IF Contains(description, "referred") THEN 10
        ELSE IF Contains(description, "introduced") THEN 5
        ELSE 0

RECURSIVE SumActions(_)
SumActions(actions) ==
    IF actions = <<>> THEN 0
    ELSE ActionScore(Head(actions)) + SumActions(Tail(actions))

get_bill_progression_score(bd) ==
    IF DOMAIN bd = {} \/ "actions" \notin DOMAIN bd THEN 0
    ELSE SumActions(bd["actions"])

(***************************************************************************)
(* Inputs of the two scorers                                               *)
(***************************************************************************)
RECURSIVE SeqsUpTo(_, _)
SeqsUpTo(S, n) ==
    IF n = 0 THEN {<<>>}
    ELSE LET shorter == SeqsUpTo(S, n - 1)
         IN  shorter \cup {Append(q, x) : q \in {r \in shorter : Len(r) = n - 1}, x \in S}

EmptyDict == [k \in {} |-> ""]

TitlePool ==
    {"", "Medicare Drug Pricing and Tax Relief Act",
     "Post Office Designation Act", "Small Business Broadband Act",
     "Armed Forces Commemorative Resolution", "Tax Act", "Treaty Base Act",
     "Road Act", "Facility Act", "An Act"}

OtherTitlePool ==
    {[title |-> "Wage Act"], [title |-> "Taxes"], [title |-> "Naming Act"],
     [title |-> "Bridge Safety"], [title |-> "Sanctions Act"],
     [as |-> "short title"]}

ImpactInputs ==
    {EmptyDict, [identifier |-> "HR 1"]}
    \cup {[title |-> t, other_titles |-> o] :
             t \in TitlePool, o \in SeqsUpTo(OtherTitlePool, MaxOtherTitles)}

ActionPool ==
    {[description |-> "Introduced in House", classification |-> {"introduction"}],
     [description |-> "Referred to the Committee on Finance", classification |-> {"referral"}],
     [description |-> "Passed House", classification |-> {"passage"}],
     [description |-> "Passed by voice vote", classification |-> {}],
     [description |-> "Became Law", classification |-> {"became-law"}],
     [description |-> "Signed by President; became law", classification |-> {"executive-signature"}],
     [classification |-> {"executive-signature"}],
     [description |-> "Committee on Finance reported favorably", classification |-> {}],
     [description |-> "Ordered to be Reported", classification |-> {}],
     [description |-> "committee.*report", classification |-> {}],
     [description |-> "Committee Consideration and Markup", classification |-> {}],
     [description |-> "Sponsor introductory remarks"]}

IdleHarness ==
    /\ bill_data = EmptyDict
    /\ impact_level = "unset"
    /\ progression_score = 0

IdleMain ==
    /\ pc = "idle"
    /\ store = <<>>
    /\ current = [exists |-> FALSE, bills |-> {}, report |-> FALSE]
    /\ backup = [exists |-> FALSE, bills |-> {}, report |-> FALSE]
    /\ target_total = 0
    /\ bills_data = <<>>
    /\ impact_categories = <<>>
    /\ selected_bills = <<>>
    /\ cat = 0
    /\ copied = 0

(***************************************************************************)
(* The classifier applied to one bill                                      *)
(***************************************************************************)
InitImpact ==
    /\ bill_data \in ImpactInputs
    /\ impact_level = "unset"
    /\ progression_score = 0
    /\ IdleMain

AnalyzeImpact ==
    /\ pc = "idle"
    /\ impact_level = "unset"
    /\ impact_level' = analyze_bill_impact(bill_data)
    /\ UNCHANGED <<bill_data, progression_score, mainVars>>

NextImpact == AnalyzeImpact

SpecImpact == InitImpact /\ [][NextImpact]_vars

(***************************************************************************)
(* The progression scorer applied to a growing action sequence             *)
(***************************************************************************)
InitScore ==
    /\ bill_data \in {[title |-> "An Act"], [title |-> "An Act", actions |-> <<>>]}
    /\ impact_level = "unset"
    /\ progression_score = get_bill_progression_score(bill_data)
    /\ IdleMain

AppendAction ==
    /\ pc = "idle"
    /\ "actions" \in DOMAIN bill_data
    /\ Len(bill_data["actions"]) < MaxActions
    /\ \E action \in ActionPool :
          bill_data' = [bill_data EXCEPT !["actions"] = Append(@, action)]
    /\ progression_score' = get_bill_progression_score(bill_data')
    /\ UNCHANGED <<impact_level, mainVars>>

NextScore == AppendAction

SpecScore == InitScore /\ [][NextScore]_vars

(***************************************************************************)
(* The corpus: bill directories 1..Len(store), store[d] the content of     *)
(* d/metadata.json.  A missing or unparseable metadata.json loads as None, *)
(* which is falsy like the empty dict and is written EmptyDict.            *)
(***************************************************************************)
Sponsor == [name |-> "A Sponsor"]

PostOfficeBill ==
    [identifier |-> "HR 1", title |-> "Post Office Designation Act",
     actions |-> <<>>, sponsorships |-> <<>>]
MedicareBill ==
    [identifier |-> "HR 2", title |-> "Medicare Drug Pricing and Tax Relief Act",
     actions |-> <<[description |-> "introduced"], [description |-> "passed house"]>>,
     sponsorships |-> <<Sponsor, Sponsor>>]
BroadbandBill ==
    [identifier |-> "S 3", title |-> "Small Business Broadband Act",
     actions |-> <<[description |-> "referred"]>>, sponsorships |-> <<>>]
ArmedForcesBill ==
    [identifier |-> "SJRES 4", title |-> "Armed Forces Commemorative Resolution",
     actions |-> <<>>]
BridgeBill ==
    [identifier |-> "S 5", title |-> "Bridge Safety Act",
     actions |-> <<[description |-> "Referred to committee"]>>,
     sponsorships |-> <<Sponsor>>]
RoadBill ==
    [identifier |-> "HR 6", title |-> "Road Act",
     actions |-> <<[description |-> "Passed Senate", classification |-> {"passage"}]>>,
     sponsorships |-> <<>>]
PlainBill == [identifier |-> "HR 7", title |-> "An Act"]

BillPool ==
    {PostOfficeBill, MedicareBill, BroadbandBill, ArmedForcesBill, BridgeBill,
     RoadBill, PlainBill, EmptyDict}

\* the four bills of the end-to-end example
ExampleStore == <<PostOfficeBill, MedicareBill, BroadbandBill, ArmedForcesBill>>

\* corpora of one run: parseable bills, one record per (tier, score, sponsors)
SampleStores ==
    SeqsUpTo(BillPool \ {ArmedForcesBill, EmptyDict}, MaxBills) \cup {ExampleStore}

\* the two scorers on the records of the pool
ImpactOf == [bd \in BillPool |-> analyze_bill_impact(bd)]
ScoreOf == [bd \in BillPool |-> get_bill_progression_score(bd)]

NoDirectory == [exists |-> FALSE, bills |-> {}, report |-> FALSE]
EmptyDirectory == [exists |-> TRUE, bills |-> {}, report |-> FALSE]

\* BillAnalyzer.__init__
NoBills == <<>>
EmptyCategories ==
    [high_impact |-> <<>>, medium_impact |-> <<>>,
     low_impact |-> <<>>, mixed_impact |-> <<>>]

(***************************************************************************)
(* analyze_all_bills                                                       *)
(***************************************************************************)
\* Path.iterdir() filtered by is_dir(): the bill directories, by name
RECURSIVE IterDir(_)
IterDir(names) ==
    IF names = {} THEN <<>>
    ELSE LET first == CHOOSE n \in names : \A m \in names : n <= m
         IN  <<first>> \o IterDir(names \ {first})

BillInfo(bill_dir, bd) ==
    [path |-> bill_dir,
     identifier |-> Get(bd, "identifier", ""),
     title |-> Get(bd, "title", ""),
     impact_level |-> ImpactOf[bd],
     progression_score |-> ScoreOf[bd],
     cosponsor_count |-> Len(Get(bd, "sponsorships", <<>>)),
     actions_count |-> Len(Get(bd, "actions", <<>>))]

\* the loop over bill_dirs: [bills_data, impact_categories] after it
RECURSIVE AnalyzeDirs(_, _, _, _)
AnalyzeDirs(bill_dirs, metadata, data, categories) ==
    IF bill_dirs = <<>>
    THEN [bills_data |-> data, impact_categories |-> categories]
    ELSE LET bill_dir == Head(bill_dirs)
             bd == metadata[bill_dir]
         IN  IF DOMAIN bd = {}
             THEN AnalyzeDirs(Tail(bill_dirs), metadata, data, categories)
             ELSE LET bill_info == BillInfo(bill_dir, bd)
                  IN  AnalyzeDirs(Tail(bill_dirs), metadata,
                                  Append(data, bill_info),
                                  [categories EXCEPT ![bill_info.impact_level] =
                                       Append(@, bill_info)])

(***************************************************************************)
(* select_sample_bills                                                     *)
(***************************************************************************)
\* the ratios 0.3, 0.4, 0.2, 0.1 and the top share 0.6, in tenths
HighImpactTenths == 3
MediumImpactTenths == 4
LowImpactTenths == 2
MixedImpactTenths == 1
TopTenths == 6

\* iteration order of the targets dict
Categories == <<"high_impact", "medium_impact", "low_impact", "mixed_impact">>

\* variant with the high and medium ratios exchanged
SwappedTargets(total) ==
    [high_impact |-> Trunc(total * MediumImpactTenths, 10),
     medium_impact |-> Trunc(total * HighImpactTenths, 10),
     low_impact |-> Trunc(total * LowImpactTenths, 10),
     mixed_impact |-> Trunc(total * MixedImpactTenths, 10)]

Targets(total) ==
    [high_impact |-> Trunc(total * HighImpactTenths, 10),
     medium_impact |-> Trunc(total * MediumImpactTenths, 10),
     low_impact |-> Trunc(total * LowImpactTenths, 10),
     mixed_impact |-> Trunc(total * MixedImpactTenths, 10)]

\* key(a) >= key(b) for key = (progression_score, cosponsor_count)
KeyGreaterEq(a, b) ==
    \/ a.progression_score > b.progression_score
    \/ /\ a.progression_score = b.progression_score
       /\ a.cosponsor_count >= b.cosponsor_count

\* variant of the sort that puts equal keys in reverse discovery order
RECURSIVE TiesReversedSort(_)
TiesReversedSort(bills) ==
    IF bills = <<>> THEN <<>>
    ELSE LET x == bills[Len(bills)]
             before == TiesReversedSort(SubSeq(bills, 1, Len(bills) - 1))
             k == Cardinality({i \in 1..Len(before) :
                                  KeyGreaterEq(before[i], x) /\ ~KeyGreaterEq(x, before[i])})
         IN  SubSeq(before, 1, k) \o <<x>> \o SubSeq(before, k + 1, Len(before))

\* sorted(available_bills, key=..., reverse=True): descending and stable
RECURSIVE SortedBills(_)
SortedBills(bills) ==
    IF bills = <<>> THEN <<>>
    ELSE LET x == bills[Len(bills)]
             before == SortedBills(SubSeq(bills, 1, Len(bills) - 1))
             k == Cardinality({i \in 1..Len(before) : KeyGreaterEq(before[i], x)})
         IN  SubSeq(before, 1, k) \o <<x>> \o SubSeq(before, k + 1, Len(before))

TopCount(target_count) == Trunc(target_count * TopTenths, 10)

\* variant that takes 40% of the quota instead of the rest of it
FortyPercentCount(target_count, top_count) == Trunc(target_count * 4, 10)

RandomCount(target_count, top_count) == target_count - top_count

\* variant that samples from the whole sorted bucket
WholeList(sorted_bills, top_count) == sorted_bills

\* remaining = sorted_bills[top_count:]
Remaining(sorted_bills, top_count) == SliceFrom(sorted_bills, top_count)

\* random.sample(population, k): every k-list of distinct positions
RandomSamples(population, k) ==
    {[i \in 1..k |-> population[f[i]]] :
        f \in {g \in [1..k -> 1..Len(population)] :
                  \A i, j \in 1..k : i # j => g[i] # g[j]}}

(***************************************************************************)
(* main                                                                    *)
(***************************************************************************)
Layouts == {"current only", "current and backup", "backup only"}

InitMain(stores, targets) ==
    /\ IdleHarness
    /\ pc = "start"
    /\ store \in stores
    /\ \E layout \in Layouts :
          /\ current = IF layout = "backup only" THEN NoDirectory
                       ELSE [exists |-> TRUE, bills |-> 1..Len(store), report |-> FALSE]
          /\ backup = CASE layout = "current only" -> NoDirectory
                        [] layout = "current and backup" -> EmptyDirectory
                        [] OTHER -> [exists |-> TRUE, bills |-> 1..Len(store), report |-> FALSE]
    /\ target_total \in targets
    /\ bills_data = NoBills
    /\ impact_categories = EmptyCategories
    /\ selected_bills = <<>>
    /\ cat = 0
    /\ copied = 0

\* Step 1: shutil.rmtree(backup_dir) when both directories exist
Step1RemoveBackup ==
    /\ pc = "start"
    /\ current.exists
    /\ backup.exists
    /\ backup' = NoDirectory
    /\ pc' = "move"
    /\ UNCHANGED <<harnessVars, store, current, target_total, bills_data,
                   impact_categories, selected_bills, cat, copied>>

\* Step 1: shutil.move(current_bills_dir, backup_dir)
Step1Move ==
    /\ pc = "move" \/ (pc = "start" /\ current.exists /\ ~backup.exists)
    /\ backup' = current
    /\ current' = NoDirectory
    /\ pc' = "analyze"
    /\ UNCHANGED <<harnessVars, store, target_total, bills_data,
                   impact_categories, selected_bills, cat, copied>>

\* Step 1: "Current bills directory not found!" and return
Step1NotFound ==
    /\ pc = "start"
    /\ ~current.exists
    /\ pc' = "not found"
    /\ UNCHANGED <<harnessVars, store, current, backup, target_total, bills_data,
                   impact_categories, selected_bills, cat, copied>>

\* Step 2: BillAnalyzer(backup_dir).analyze_all_bills()
Step2Analyze ==
    /\ pc = "analyze"
    /\ LET result == AnalyzeDirs(IterDir(backup.bills), store, NoBills, EmptyCategories)
       IN  /\ bills_data' = result.bills_data
           /\ impact_categories' = result.impact_categories
    /\ cat' = 1
    /\ pc' = "select"
    /\ UNCHANGED <<harnessVars, store, current, backup, target_total,
                   selected_bills, copied>>

\* Step 3: one iteration of the loop over targets.items()
Step3SelectCategory ==
    /\ pc = "select"
    /\ cat \in 1..Len(Categories)
    /\ LET category == Categories[cat]
           target_count == Targets(target_total)[category]
           available_bills == impact_categories[category]
       IN  IF Len(available_bills) <= target_count
           THEN selected_bills' = selected_bills \o available_bills
           ELSE LET sorted_bills == SortedBills(available_bills)
                    top_count == TopCount(target_count)
                    random_count == RandomCount(target_count, top_count)
                    selected == SliceTo(sorted_bills, top_count)
                    remaining == Remaining(sorted_bills, top_count)
                IN  IF random_count > 0 /\ remaining # <<>>
                    THEN \E sample \in RandomSamples(remaining,
                                          Min(random_count, Len(remaining))) :
                            selected_bills' = selected_bills \o selected \o sample
                    ELSE selected_bills' = selected_bills \o selected
    /\ cat' = cat + 1
    /\ pc' = IF cat = Len(Categories) THEN "mkdir" ELSE "select"
    /\ UNCHANGED <<harnessVars, store, current, backup, target_total,
                   bills_data, impact_categories, copied>>

\* Step 4: output_path.mkdir(parents=True, exist_ok=True)
Step4Mkdir ==
    /\ pc = "mkdir"
    /\ current' = IF current.exists THEN current ELSE EmptyDirectory
    /\ copied' = 0
    /\ pc' = "copy"
    /\ UNCHANGED <<harnessVars, store, backup, target_total, bills_data,
                   impact_categories, selected_bills, cat>>

\* Step 4: one iteration of the copy loop, shutil.copytree with dirs_exist_ok
Step4Copy ==
    /\ pc = "copy"
    /\ copied < Len(selected_bills)
    /\ LET source_path == selected_bills[copied + 1].path
       IN  current' = IF backup.exists /\ source_path \in backup.bills
                      THEN [current EXCEPT !.bills = @ \cup {source_path}]
                      ELSE current
    /\ copied' = copied + 1
    /\ UNCHANGED <<harnessVars, pc, store, backup, target_total, bills_data,
                   impact_categories, selected_bills, cat>>

\* Step 4: create_summary_report writes sample_dataset_report.json
Step4Report ==
    /\ pc = "copy"
    /\ copied = Len(selected_bills)
    /\ current' = [current EXCEPT !.report = TRUE]
    /\ pc' = "done"
    /\ UNCHANGED <<harnessVars, store, backup, target_total, bills_data,
                   impact_categories, selected_bills, cat, copied>>

\* the process is interrupted, or has ended, and main() is started again
Restart ==
    /\ pc \notin {"idle", "start"}
    /\ pc' = "start"
    /\ bills_data' = NoBills
    /\ impact_categories' = EmptyCategories
    /\ selected_bills' = <<>>
    /\ cat' = 0
    /\ copied' = 0
    /\ UNCHANGED <<harnessVars, store, current, backup, target_total>>

\* one run of main() with a positive target
Init == InitMain(SampleStores, 1..MaxTarget)

Next ==
    \/ Step1RemoveBackup
    \/ Step1Move
    \/ Step1NotFound
    \/ Step2Analyze
    \/ Step3SelectCategory
    \/ Step4Mkdir
    \/ Step4Copy
    \/ Step4Report

Spec == Init /\ [][Next]_vars

\* one run of main() with a target that is zero or negative
InitConfig == InitMain(SeqsUpTo(BillPool, MaxRestartBills), (0 - MaxTarget)..0)

SpecConfig == InitConfig /\ [][Next]_vars

\* runs of main() that are interrupted anywhere and started again
InitRestart == InitMain(SeqsUpTo(BillPool, MaxRestartBills), 1..MaxTarget)

NextRestart == Next \/ Restart

SpecRestart == InitRestart /\ [][NextRestart]_vars

(***************************************************************************)
(* Properties of analyze_bill_impact                                       *)
(***************************************************************************)
\* the distinct keywords of a list that occur in a text
Matched(keywords, text) ==
    {k \in {keywords[i] : i \in 1..Len(keywords)} : Contains(text, k)}

Analyzed == pc = "idle" /\ impact_level # "unset"

\* C3 as stated: a bill whose title text contains at least 2 distinct
\* high-impact keywords is classified high_impact.
C3_TwoHighIsHigh ==
    (Analyzed
     /\ Cardinality(Matched(high_impact_keywords, text_to_analyze(bill_data))) >= 2)
        => impact_level = "high_impact"

\* C3 amended: a bill whose title text contains at least 2 distinct
\* high-impact keywords and no administrative keyword is classified
\* high_impact, whatever its medium and low counts are.
C3_TwoHighNoAdminIsHigh ==
    (Analyzed
     /\ Cardinality(Matched(high_impact_keywords, text_to_analyze(bill_data))) >= 2
     /\ Matched(administrative_keywords, text_to_analyze(bill_data)) = {})
        => impact_level = "high_impact"

C3_Witness ==
    /\ Analyzed
    /\ Cardinality(Matched(high_impact_keywords, text_to_analyze(bill_data))) >= 2
    /\ Cardinality(Matched(low_impact_keywords, text_to_analyze(bill_data))) >= 2
    /\ Matched(administrative_keywords, text_to_analyze(bill_data)) = {}
    /\ impact_level = "high_impact"

\* the documented decision procedure, on the sets of matched keywords
DocumentedLevel(text) ==
    LET high == Cardinality(Matched(high_impact_keywords, text))
        medium == Cardinality(Matched(medium_impact_keywords, text))
        low == Cardinality(Matched(low_impact_keywords, text))
    IN  CASE Matched(administrative_keywords, text) # {} -> "low_impact"
          [] OTHER ->
             CASE high >= 2 \/ (high >= 1 /\ medium >= 1) -> "high_impact"
               [] OTHER ->
                  CASE medium >= 2 -> "medium_impact"
                    [] OTHER ->
                       CASE low >= 2 -> "low_impact"
                         [] OTHER ->
                            CASE high = 1 -> "high_impact"
                              [] OTHER ->
                                 CASE medium = 1 -> "medium_impact"
                                   [] OTHER -> "mixed_impact"

\* C4: the classifier returns low_impact whenever an administrative keyword
\* is present, otherwise the first match of the documented precedence table
\* with every keyword counted once; empty or missing text is mixed_impact;
\* the result is one of the four tiers.
C4_DocumentedProcedure ==
    Analyzed =>
        /\ impact_level = DocumentedLevel(text_to_analyze(bill_data))
        /\ impact_level \in {"high_impact", "medium_impact", "low_impact", "mixed_impact"}
        /\ (Len(text_to_analyze(bill_data)) = 0 => impact_level = "mixed_impact")

C4_Witness ==
    /\ Analyzed
    /\ Matched(administrative_keywords, text_to_analyze(bill_data)) # {}
    /\ Cardinality(Matched(high_impact_keywords, text_to_analyze(bill_data))) >= 2
    /\ impact_level = "low_impact"

(***************************************************************************)
(* Properties of get_bill_progression_score                                *)
(***************************************************************************)
\* this step appended one action to the bill's action sequence
Appended ==
    /\ "actions" \in DOMAIN bill_data
    /\ "actions" \in DOMAIN bill_data'
    /\ Len(bill_data'["actions"]) = Len(bill_data["actions"]) + 1
    /\ SubSeq(bill_data'["actions"], 1, Len(bill_data["actions"])) = bill_data["actions"]

LastAction(bd) == bd["actions"][Len(bd["actions"])]

DescriptionOf(action) == Lower(Get(action, "description", ""))

\* C5: the score of an empty action sequence is 0, every score is
\* non-negative, and appending an action whose description contains
\* "became law" raises the score by exactly 100.
C5_ScoreContract ==
    /\ [](progression_score >= 0)
    /\ [](Get(bill_data, "actions", <<>>) = <<>> => progression_score = 0)
    /\ [][(Appended /\ Contains(DescriptionOf(LastAction(bill_data')), "became law"))
            => progression_score' = progression_score + 100]_vars

C5_Witness ==
    /\ "actions" \in DOMAIN bill_data
    /\ Len(bill_data["actions"]) >= 2
    /\ Contains(DescriptionOf(LastAction(bill_data)), "became law")
    /\ "executive-signature" \in Get(LastAction(bill_data), "classification", {})
    /\ progression_score > 100

\* text contains first, and second somewhere after that occurrence
FollowedBy(text, first, second) ==
    \E i \in 1..(Len(text) - Len(first) + 1) :
        /\ SubSeq(text, i, i + Len(first) - 1) = first
        /\ Contains(SubSeq(text, i + Len(first), Len(text)), second)

CommitteeReportPattern(description) ==
    \/ FollowedBy(description, "committee", "report")
    \/ FollowedBy(description, "ordered", "reported")

HigherRow(action) ==
    \/ Contains(DescriptionOf(action), "became law")
    \/ "became-law" \in Get(action, "classification", {})
    \/ Contains(DescriptionOf(action), "signed by president")
    \/ "executive-signature" \in Get(action, "classification", {})
    \/ /\ Contains(DescriptionOf(action), "passed")
       /\ \/ Contains(DescriptionOf(action), "house")
          \/ Contains(DescriptionOf(action), "senate")

\* C9: an action whose description matches the committee-report pattern and
\* none of the three higher rows contributes exactly 60 to the score.
C9_CommitteeReportAdds60 ==
    [][(/\ Appended
        /\ CommitteeReportPattern(DescriptionOf(LastAction(bill_data')))
        /\ ~HigherRow(LastAction(bill_data')))
          => progression_score' = progression_score + 60]_vars

(***************************************************************************)
(* Properties of select_sample_bills                                       *)
(***************************************************************************)
CategoryIndex(category) == CHOOSE i \in 1..Len(Categories) : Categories[i] = category

TenthsOf(category) ==
    CASE category = "high_impact" -> HighImpactTenths
      [] category = "medium_impact" -> MediumImpactTenths
      [] category = "low_impact" -> LowImpactTenths
      [] category = "mixed_impact" -> MixedImpactTenths

\* floor(targetTotal x tier ratio)
Quota(category) == (target_total * TenthsOf(category)) \div 10

\* the bucket of a tier: the analysed bills of that tier in discovery order
Bucket(category) ==
    LET InTier(b) == b.impact_level = category
    IN  SelectSeq(bills_data, InTier)

\* what the result holds of a tier, in result order
TierSelection(category) ==
    LET InTier(b) == b.impact_level = category
    IN  SelectSeq(selected_bills, InTier)

Analysed == pc \in {"select", "mkdir", "copy", "done"}
Returned == pc \in {"mkdir", "copy", "done"}
Processed(category) == Analysed /\ cat > CategoryIndex(category)

\* C1: the result contains no bill twice, only bills of the analysed
\* corpus, and at most targetTotal bills.
C1_NoDuplicatesWithinTarget ==
    /\ \A i, j \in 1..Len(selected_bills) :
          i # j => selected_bills[i].path # selected_bills[j].path
    /\ \A i \in 1..Len(selected_bills) :
          \E k \in 1..Len(bills_data) : bills_data[k] = selected_bills[i]
    /\ Len(selected_bills) <= target_total

C1_Witness ==
    /\ Returned
    /\ Len(selected_bills) >= 3
    /\ \E category \in {"high_impact", "medium_impact"} :
          /\ Len(Bucket(category)) > Quota(category)
          /\ Len(TierSelection(category)) > TopCount(Quota(category))
          /\ TopCount(Quota(category)) >= 1

ExampleCorpus ==
    /\ Len(bills_data) = 4
    /\ [i \in 1..4 |-> bills_data[i].impact_level]
          = <<"low_impact", "high_impact", "medium_impact", "low_impact">>

\* C2 as stated: a corpus of at most targetTotal bills is returned whole.
C2_SmallCorpusReturnedWhole ==
    (Returned /\ Len(bills_data) <= target_total) =>
        \A k \in 1..Len(bills_data) :
            \E i \in 1..Len(selected_bills) : selected_bills[i] = bills_data[k]

\* C2 amended: of a corpus of at most targetTotal bills the result holds
\* every bill of every tier whose bucket is no larger than the tier's quota
\* floor(targetTotal x ratio), and nothing when the corpus is empty; the
\* example corpus with tiers low, high, medium, low and targetTotal 4 yields
\* the high and the medium bill only, the low quota being floor(0.8) = 0.
C2_SmallCorpusReturnedUpToQuota ==
    (Returned /\ Len(bills_data) <= target_total) =>
        /\ \A k \in 1..Len(bills_data) :
              Len(Bucket(bills_data[k].impact_level)) <= Quota(bills_data[k].impact_level)
                 => \E i \in 1..Len(selected_bills) : selected_bills[i] = bills_data[k]
        /\ bills_data = <<>> => selected_bills = <<>>
        /\ (ExampleCorpus /\ target_total = 4)
              => selected_bills = <<bills_data[2], bills_data[3]>>

C2_Witness ==
    /\ Returned
    /\ ExampleCorpus
    /\ target_total = 4
    /\ Len(selected_bills) = 2

\* bill a ranks strictly above bill b
Outranks(a, b) ==
    \/ a.progression_score > b.progression_score
    \/ /\ a.progression_score = b.progression_score
       /\ a.cosponsor_count > b.cosponsor_count

SameKey(a, b) ==
    /\ a.progression_score = b.progression_score
    /\ a.cosponsor_count = b.cosponsor_count

\* position in the bucket of the bill with n bills ahead of it in the
\* descending order whose ties keep discovery order
Ranked(bucket, n) ==
    CHOOSE p \in 1..Len(bucket) :
        Cardinality({q \in 1..Len(bucket) :
                        \/ Outranks(bucket[q], bucket[p])
                        \/ SameKey(bucket[q], bucket[p]) /\ q < p}) = n

\* C7: of a tier whose bucket exceeds its quota, the first floor(quota x 0.6)
\* entries of the tier's selection are the first that many bills of the
\* bucket in descending (score, cosponsors) order with ties in discovery
\* order, whatever was drawn at random, and no bill of the random fill
\* outranks a bill of the top slice.
C7_TopSliceDeterministic ==
    \A c \in 1..Len(Categories) :
        LET category == Categories[c]
            bucket == Bucket(category)
            top == (Quota(category) * TopTenths) \div 10
            chosen == TierSelection(category)
        IN  (Processed(category) /\ Len(bucket) > Quota(category)) =>
                /\ Len(chosen) >= top
                /\ \A j \in 1..top : chosen[j] = bucket[Ranked(bucket, j - 1)]
                /\ \A i \in 1..top : \A j \in (top + 1)..Len(chosen) :
                      ~Outranks(chosen[j], chosen[i])

C7_Witness ==
    \E c \in 1..Len(Categories) :
        LET category == Categories[c]
            bucket == Bucket(category)
            top == (Quota(category) * TopTenths) \div 10
            chosen == TierSelection(category)
        IN  /\ Processed(category)
            /\ Len(bucket) > Quota(category)
            /\ top >= 1
            /\ Len(chosen) > top
            /\ \E p, q \in 1..Len(bucket) :
                  /\ p < q
                  /\ SameKey(bucket[p], bucket[q])
                  /\ chosen[1] = bucket[p]
            /\ \E p \in 1..Len(bucket) : Outranks(chosen[1], bucket[p])
            /\ bucket[1] # chosen[1]

\* C8: from every tier exactly min(bucket size, floor(targetTotal x ratio))
\* bills are taken, whatever the other tiers hold, and the result lists the
\* tiers in the order high, medium, low, mixed.
C8_PerTierCount ==
    /\ \A c \in 1..Len(Categories) :
          Len(TierSelection(Categories[c])) =
              IF Processed(Categories[c])
              THEN Min(Len(Bucket(Categories[c])), Quota(Categories[c]))
              ELSE 0
    /\ \A c \in 1..Len(Categories) :
          (Processed(Categories[c])
           /\ Len(Bucket(Categories[c])) <= Quota(Categories[c]))
              => TierSelection(Categories[c]) = Bucket(Categories[c])
    /\ \A i, j \in 1..Len(selected_bills) :
          i < j => CategoryIndex(selected_bills[i].impact_level)
                      <= CategoryIndex(selected_bills[j].impact_level)

C8_Witness ==
    /\ Returned
    /\ \E category \in {"high_impact", "medium_impact", "low_impact", "mixed_impact"} :
          /\ Len(Bucket(category)) < Quota(category)
          /\ Len(Bucket(category)) > 0
    /\ \E category \in {"high_impact", "medium_impact", "low_impact", "mixed_impact"} :
          /\ Len(Bucket(category)) > Quota(category)
          /\ Quota(category) > 0
    /\ \E category \in {"high_impact", "medium_impact", "low_impact", "mixed_impact"} :
          /\ Len(Bucket(category)) = Quota(category)
          /\ Quota(category) > 0

(***************************************************************************)
(* Properties of main                                                      *)
(***************************************************************************)
\* C6: with a zero or negative target no bill is analysed, none is
\* selected and nothing is materialized.
C6_NonPositiveTargetRejected ==
    target_total <= 0 =>
        /\ bills_data = <<>>
        /\ selected_bills = <<>>
        /\ pc \notin {"copy", "done"}
        /\ ~current.report

OriginalCorpus == 1..Len(store)

\* C10: whatever is interrupted and restarted, the complete original corpus
\* is still on disk, and a run that analyses analyses that corpus.
C10_OriginalCorpusKept ==
    /\ \/ current.exists /\ current.bills = OriginalCorpus
       \/ backup.exists /\ backup.bills = OriginalCorpus
    /\ pc = "select" => backup.bills = OriginalCorpus

====
